---- MODULE Spec2Model ----
(***************************************************************************)
(* Token lifecycle and authenticated-request pipeline of the Spotify       *)
(* client: src/src/auth.py (handshake), src/src/spotifyclient.py (client). *)
(*                                                                         *)
(* JSON objects are records whose DOMAIN is the set of keys present, so    *)
(* that `"k" in obj` is  "k" \in DOMAIN obj.  Time is whole seconds.       *)
(* Strings that are URLs are sequences of symbols; the symbol "B" is the   *)
(* literal "https://api.spotify.com".                                      *)
(***************************************************************************)
EXTENDS Integers, Sequences, FiniteSets, TLC

VARIABLES
    now,            \* wall clock, time.time()
    file,           \* content of tokens.json
    fileWriter,     \* who wrote the file last: "external", "auth", "client"
    authOutcome,    \* "none", "listening", or how the run of auth.main ended
    inbox,          \* requests that reached the callback port and wait to be handled
    handled,        \* requests the callback server has handled, in order
    auth_code,      \* server.auth_code, None while the attribute is not set
    client,         \* "none", "ready", or the error the constructor raised
    access_token,   \* self.access_token
    refresh_token,  \* self.refresh_token
    expires_at,     \* self.expires_at
    origin,         \* where the fields in memory come from: a load, or a refresh
    rpc,            \* position inside SpotifyClient.request; "save" in a lone save_tokens
    fpc,            \* position inside refresh_access_token / save_tokens
    req,            \* arguments of the running request call
    response,       \* the `response` local of request
    outcome,        \* how the last request call ended, and its value
    log,            \* events of the running / last request call, in order
    pgpc,           \* position inside SpotifyClient.paginate
    items,          \* the `items` local of paginate
    url,            \* the `url` local of paginate
    current_params, \* the `current_params` local of paginate
    served,         \* page bodies paginate has received so far, in order
    pgOutcome,      \* how the last paginate call ended, and its value
    buf,            \* the `buffer` argument of an is_token_expired call
    expired         \* the value that is_token_expired call returned

vars == << now, file, fileWriter, authOutcome, inbox, handled, auth_code, client, access_token, refresh_token,
           expires_at, origin, rpc, fpc, req, response, outcome, log,
           pgpc, items, url, current_params, served, pgOutcome, buf, expired >>

fileVars == << file, fileWriter >>
authVars == << authOutcome, inbox, handled, auth_code >>
tokenVars == << client, access_token, refresh_token, expires_at, origin >>
requestVars == << rpc, fpc, req, response, outcome, log >>
paginateVars == << pgpc, items, url, current_params, served, pgOutcome >>
expiredVars == << buf, expired >>

----------------------------------------------------------------------------
(* Bounds of the model *)

MaxNow == 2        \* the clock stops advancing here
MaxPages == 3      \* the provider ends a collection after this many pages
MaxItems == 2      \* items per page
MaxBuffer == 3     \* buffers tried on is_token_expired alone: 0..MaxBuffer
MaxExpiry == 6     \* expiry instants tried on is_token_expired alone
MaxCursor == 4     \* longest next cursor tried on the cursor round trip, in symbols
MaxInbound == 2    \* requests that reach the callback port during one handshake

(* Program constants *)

None == -1                 \* Python None / JSON null
DefaultBuffer == 10        \* is_token_expired(self, buffer=10)
BaseUrl == << "B" >>       \* "https://api.spotify.com"

AccessTokens == {2}        \* access tokens the provider grants; files start with 1
RefreshTokens == {2}       \* refresh tokens the provider grants, when it rotates them
ExpiresIns == {9, 11}      \* relative lifetimes the provider grants, seconds
Statuses == {200, 400, 401}

----------------------------------------------------------------------------
(* The token file *)

NoQuery == [x \in {} |-> 0]          \* parse_qs found no parameter
Absent == [kind |-> "absent"]
Partial == [kind |-> "partial"]      \* opened for writing, content not complete
Json(d) == [kind |-> "json", data |-> d]

(* What the file may hold before the program first touches it. *)
InitialFiles ==
    {Absent}
    \cup {Json([access_token |-> 1, refresh_token |-> 1, expires_at |-> e]) : e \in {10, 12}}
    \cup {Json([access_token |-> 1, refresh_token |-> 1, expires_in |-> e]) : e \in ExpiresIns}
    \cup {Json([access_token |-> 1, refresh_token |-> None, expires_at |-> 5]),
          Json([refresh_token |-> 1, expires_at |-> 12]),
          Json([access_token |-> 1, expires_at |-> 12]),
          Json([access_token |-> 1, refresh_token |-> 1])}

----------------------------------------------------------------------------
(* Token endpoint responses: an error payload, or a token grant in which   *)
(* refresh_token is optional.                                              *)

TokenResponses ==
    {[error |-> "invalid_grant"]}
    \cup [access_token : AccessTokens, expires_in : ExpiresIns]
    \cup [access_token : AccessTokens, refresh_token : RefreshTokens, expires_in : ExpiresIns]

----------------------------------------------------------------------------
(* auth.py: the handshake entry point *)

(* main, lines 140-144: the object handed to store_tokens.  tokens["k"]    *)
(* raises KeyError on a missing key, tokens.get("k") yields None.          *)
tokens_to_store(tokens) ==
    [access_token |-> tokens.access_token,
     refresh_token |-> tokens.refresh_token,
     expires_in |-> IF "expires_in" \in DOMAIN tokens THEN tokens.expires_in ELSE None]

(* Query strings of the requests that may reach the callback port, as      *)
(* parse_qs returns them: no code parameter, one, or the parameter twice.  *)
Queries == { NoQuery, [code |-> << 1 >>], [code |-> << 2, 1 >>] }

(* no callback server is up *)
NoListener ==
    /\ inbox = << >>
    /\ handled = << >>
    /\ auth_code = None

(* do_GET, line 24 taking the last value of the parameter *)
do_GET_last(qs) == IF "code" \in DOMAIN qs THEN qs.code[Len(qs.code)] ELSE None

(* OAuthHandler.do_GET, lines 20-24: server.auth_code after the request;   *)
(* without a code the attribute stays unset, which line 64 reads as None   *)
do_GET(qs) == IF "code" \in DOMAIN qs THEN qs.code[1] ELSE None

(* main, lines 119-133, retrieve_authentication_code, lines 58-62: the     *)
(* callback server is started and the browser is opened                    *)
AuthListen ==
    /\ client # "ready"
    /\ authOutcome = "none"
    /\ authOutcome' = "listening"
    /\ UNCHANGED << now, fileVars, inbox, handled, auth_code, tokenVars, requestVars,
                    paginateVars, expiredVars >>

(* a request reaches the callback port while the handshake process runs *)
Inbound ==
    /\ authOutcome = "listening"
    /\ Len(inbox) + Len(handled) < MaxInbound
    /\ \E qs \in Queries : inbox' = Append(inbox, qs)
    /\ UNCHANGED << now, fileVars, authOutcome, handled, auth_code, tokenVars, requestVars,
                    paginateVars, expiredVars >>

(* main from line 63 of retrieve_authentication_code on: handle_request    *)
(* serves one request; the code it left, or its absence, decides; the      *)
(* token endpoint answers the authorization_code grant; the result is      *)
(* stored.                                                                 *)
AuthMain ==
    /\ client # "ready"
    /\ authOutcome = "listening"
    /\ inbox # << >>
    /\ handled' = Append(handled, Head(inbox))
    /\ inbox' = Tail(inbox)
    /\ auth_code' = do_GET(Head(inbox))
    /\ \E tokens \in TokenResponses :
          IF auth_code' = None
          THEN /\ authOutcome' = "MissingAuthorizationCode"
               /\ UNCHANGED fileVars
          ELSE IF "error" \in DOMAIN tokens
          THEN /\ authOutcome' = "TokenExchangeFailed"
               /\ UNCHANGED fileVars
          ELSE IF "refresh_token" \notin DOMAIN tokens
          THEN /\ authOutcome' = "KeyError"
               /\ UNCHANGED fileVars
          ELSE /\ authOutcome' = "stored"
               /\ file' = Json(tokens_to_store(tokens))
               /\ fileWriter' = "auth"
    /\ UNCHANGED << now, tokenVars, requestVars, paginateVars, expiredVars >>

(* the handshake process ends *)
AuthExit ==
    /\ authOutcome # "none"
    /\ authOutcome' = "none"
    /\ inbox' = << >>
    /\ handled' = << >>
    /\ auth_code' = None
    /\ UNCHANGED << now, fileVars, tokenVars, requestVars, paginateVars, expiredVars >>

----------------------------------------------------------------------------
(* spotifyclient.py: the token store *)

(* line 27 reading refresh_token with tokens.get *)
load_tokens_lenient(f, t) ==
    IF f.kind = "absent" THEN [result |-> "TokensNotFound"]
    ELSE IF f.kind = "partial" THEN [result |-> "JSONDecodeError"]
    ELSE LET tokens == f.data
             r == IF "refresh_token" \in DOMAIN tokens THEN tokens.refresh_token ELSE None
         IN
         IF "access_token" \notin DOMAIN tokens THEN [result |-> "MalformedTokenFile"]
         ELSE IF "expires_at" \in DOMAIN tokens
         THEN [result |-> "ready", access_token |-> tokens.access_token,
               refresh_token |-> r, expires_at |-> tokens.expires_at]
         ELSE IF "expires_in" \in DOMAIN tokens
         THEN [result |-> "ready", access_token |-> tokens.access_token,
               refresh_token |-> r, expires_at |-> t + tokens.expires_in]
         ELSE [result |-> "MalformedTokenFile"]

(* _load_tokens: the constructor's outcome on file content f at time t.    *)
load_tokens(f, t) ==
    IF f.kind = "absent" THEN [result |-> "TokensNotFound"]
    ELSE IF f.kind = "partial" THEN [result |-> "JSONDecodeError"]
    ELSE LET tokens == f.data IN
         IF "access_token" \notin DOMAIN tokens THEN [result |-> "MalformedTokenFile"]
         ELSE IF "refresh_token" \notin DOMAIN tokens THEN [result |-> "MalformedTokenFile"]
         ELSE IF "expires_at" \in DOMAIN tokens
         THEN [result |-> "ready", access_token |-> tokens.access_token,
               refresh_token |-> tokens.refresh_token, expires_at |-> tokens.expires_at]
         ELSE IF "expires_in" \in DOMAIN tokens
         THEN [result |-> "ready", access_token |-> tokens.access_token,
               refresh_token |-> tokens.refresh_token, expires_at |-> t + tokens.expires_in]
         ELSE [result |-> "MalformedTokenFile"]

NoOrigin == [kind |-> "none"]
Loaded(f, t) == [kind |-> "load", file |-> f, at |-> t]    \* _load_tokens read f at t
Refreshed == [kind |-> "refresh"]                          \* lines 92-97 have run since

(* SpotifyClient.__init__: a failed constructor returns no object. *)
Construct ==
    /\ client # "ready"
    /\ authOutcome = "none"
    /\ LET r == load_tokens(file, now) IN
          /\ client' = r.result
          /\ IF r.result = "ready"
             THEN /\ access_token' = r.access_token
                  /\ refresh_token' = r.refresh_token
                  /\ expires_at' = r.expires_at
                  /\ origin' = Loaded(file, now)
             ELSE UNCHANGED << access_token, refresh_token, expires_at, origin >>
    /\ UNCHANGED << now, fileVars, authVars, requestVars, paginateVars, expiredVars >>

(* lines 48-52 keeping the key of the handshake's file *)
save_data_legacy(a, r, e) == [access_token |-> a, refresh_token |-> r, expires_in |-> e]

(* save_tokens, lines 48-52 *)
save_data(a, r, e) == [access_token |-> a, refresh_token |-> r, expires_at |-> e]

(* lines 94-95 without the test: refresh_token taken with tokens.get *)
refreshed_overwrite(a, r, e, tokens, t) ==
    [access_token |-> tokens.access_token,
     refresh_token |-> IF "refresh_token" \in DOMAIN tokens THEN tokens.refresh_token ELSE None,
     expires_at |-> t + tokens.expires_in]

(* refresh_access_token, lines 92-97: the fields after a grant at time t *)
refreshed(a, r, e, tokens, t) ==
    [access_token |-> tokens.access_token,
     refresh_token |-> IF "refresh_token" \in DOMAIN tokens THEN tokens.refresh_token ELSE r,
     expires_at |-> t + tokens.expires_in]

(* lines 88-89 placed after line 92: the response is read before the test *)
refused_late(a, r, e, tokens) ==
    [access_token |-> IF "access_token" \in DOMAIN tokens THEN tokens.access_token ELSE None,
     refresh_token |-> r,
     expires_at |-> e]

(* refresh_access_token, lines 88-89: the fields when the response holds   *)
(* an error; the raise comes before any assignment                         *)
refused(a, r, e, tokens) ==
    [access_token |-> a, refresh_token |-> r, expires_at |-> e]

(* line 106 with the buffer dropped *)
is_token_expired_nobuffer(e, t, buffer) == e < t

(* line 106 with <= for < *)
is_token_expired_le(e, t, buffer) == e <= t + buffer

(* is_token_expired, line 106 *)
is_token_expired(e, t, buffer) == e < t + buffer

(* a call of is_token_expired on its own, with any buffer *)
IsTokenExpired ==
    /\ client = "ready"
    /\ rpc = "idle"
    /\ expired' = << [now |-> now, expires_at |-> expires_at, buffer |-> buf,
                      result |-> is_token_expired(expires_at, now, buf)] >>
    /\ UNCHANGED << now, fileVars, authVars, tokenVars, rpc, fpc, req, response,
                    outcome, log, paginateVars, buf >>

Falsy(v) == v = None            \* `not v` on a token value

----------------------------------------------------------------------------
(* The resource provider *)

NoUrl == << >>       \* None and "": both falsy, which is all the code asks of them
NoParams == "None"
NoBody == [x \in {} |-> 0]

MeEndpoint == << "me" >>                 \* '/v1/me'
PlaylistsEndpoint == << "playlists" >>   \* '/v1/me/playlists'

(* Cursors the provider hands out: page URLs, never empty. *)
Cursors == { BaseUrl \o << "p" >>, << "H", "p" >> }

ItemsOf(k, n) == [j \in 1..n |-> << k, j >>]
ProfileBodies == { [id |-> 1], [id |-> 2] }

(* Bodies the provider may send as page k of a collection: items present   *)
(* or not, next a cursor, null or absent.  Page MaxPages carries no cursor.*)
Pages(k) ==
    LET its == { [items |-> ItemsOf(k, n)] : n \in 0..MaxItems } \cup { NoBody }
        nxs == { [next |-> c] : c \in (IF k < MaxPages THEN Cursors ELSE {}) \cup { NoUrl } }
               \cup { NoBody }
    IN  { i @@ n : i \in its, n \in nxs }

Responses(bodies) ==
    { [status_code |-> st, body |-> NoBody] : st \in Statuses \ {200} }
    \cup { [status_code |-> 200, body |-> b] : b \in bodies }

NoResponse == [status_code |-> 0, body |-> NoBody]
NoOutcome == [kind |-> "none", value |-> NoBody]
Raised(kind) == [kind |-> kind, value |-> NoBody]
Returned(v) == [kind |-> "returned", value |-> v]

----------------------------------------------------------------------------
(* SpotifyClient.request *)

Bodies == IF pgpc = "L193" THEN Pages(Len(served) + 1) ELSE ProfileBodies

(* line 137 with > for >= *)
is_failure_above(status_code) == status_code > 400

(* request, line 137 *)
is_failure(status_code) == status_code >= 400

NoRequest == [method |-> "GET", endpoint |-> NoUrl, params |-> NoParams,
              url |-> NoUrl, at |-> 0, access_token |-> None, expires_at |-> None]

(* no request call is running: its frame is gone *)
IdleRequest ==
    /\ rpc = "idle"
    /\ fpc = "none"
    /\ req = NoRequest
    /\ response = NoResponse
    /\ outcome = NoOutcome
    /\ log = << >>
    /\ buf = DefaultBuffer
    /\ expired = << >>

(* request ends for its caller: the frame is dropped *)
ResetRequest ==
    /\ rpc' = "idle"
    /\ fpc' = "none"
    /\ req' = NoRequest
    /\ response' = NoResponse
    /\ outcome' = NoOutcome
    /\ log' = << >>
    /\ buf' = DefaultBuffer
    /\ expired' = << >>

(* lines 114-116 moved out of _make_request: the header is built once, on  *)
(* entry, from the token of that moment                                    *)
bearer_captured(current, entry) == entry

(* _make_request, lines 114-116: the header is built at each attempt from  *)
(* self.access_token as it is then                                         *)
bearer(current, entry) == current

(* line 133 turned into a loop: every 401 is refreshed and retried *)
retry_on_every_401(pc, status_code) == status_code = 401

(* request, line 133: the 401 test, which only the first attempt reaches *)
retry_on(pc, status_code) == pc = "L130" /\ status_code = 401

(* request, lines 109-128: entry, up to the first blocking call *)
RequestEnter(method, endpoint, params) ==
    LET e == is_token_expired(expires_at, now, DefaultBuffer) IN
    /\ req' = [method |-> method, endpoint |-> endpoint, params |-> params,
               url |-> BaseUrl \o endpoint, at |-> now,
               access_token |-> access_token, expires_at |-> expires_at]
    /\ buf' = DefaultBuffer
    /\ expired' = << [now |-> now, expires_at |-> expires_at,
                      buffer |-> DefaultBuffer, result |-> e] >>
    /\ response' = NoResponse
    /\ outcome' = NoOutcome
    /\ log' = << >>
    /\ IF e THEN rpc' = "L128" /\ fpc' = "L67"
            ELSE rpc' = "L130" /\ fpc' = "none"

Raise(kind) ==
    /\ rpc' = "done"
    /\ fpc' = "none"
    /\ outcome' = Raised(kind)

(* where save_tokens returns to: request line 128 or 134, or its own caller *)
AfterRefresh == IF rpc = "L128" THEN "L130" ELSE IF rpc = "L134" THEN "L135" ELSE "done"

(* refresh_access_token, lines 67-97 *)
RefreshPost ==
    /\ fpc = "L67"
    /\ IF Falsy(refresh_token)
       THEN /\ Raise("NoRefreshToken")
            /\ log' = Append(log, [ev |-> "refresh"])
            /\ UNCHANGED << access_token, refresh_token, expires_at, origin >>
       ELSE \E tokens \in TokenResponses :
            IF "error" \in DOMAIN tokens
            THEN LET n == refused(access_token, refresh_token, expires_at, tokens) IN
                 /\ Raise("TokenExchangeFailed")
                 /\ access_token' = n.access_token
                 /\ refresh_token' = n.refresh_token
                 /\ expires_at' = n.expires_at
                 /\ log' = log \o << [ev |-> "refresh"],
                                     [ev |-> "refused", tokens |-> tokens,
                                      prior |-> save_data(access_token, refresh_token, expires_at),
                                      file |-> file] >>
                 /\ UNCHANGED origin
            ELSE LET n == refreshed(access_token, refresh_token, expires_at, tokens, now) IN
                 /\ access_token' = n.access_token
                 /\ refresh_token' = n.refresh_token
                 /\ expires_at' = n.expires_at
                 /\ origin' = Refreshed
                 /\ log' = log \o << [ev |-> "refresh"],
                                     [ev |-> "granted", tokens |-> tokens, at |-> now,
                                      prior |-> save_data(access_token, refresh_token, expires_at),
                                      origin |-> origin, file |-> file] >>
                 /\ fpc' = "L57"
                 /\ UNCHANGED << rpc, outcome >>
    /\ UNCHANGED << now, fileVars, authVars, client, req, response, paginateVars, expiredVars >>

(* save_tokens, line 57: open(..., "w") truncates the file *)
SaveOpen ==
    /\ fpc = "L57"
    /\ file' = Partial
    /\ fileWriter' = "client"
    /\ fpc' = "L58"
    /\ UNCHANGED << now, authVars, tokenVars, rpc, req, response, outcome, log,
                    paginateVars, expiredVars >>

(* save_tokens, lines 55-60: mkdir or open raises OSError *)
SaveOpenFails ==
    /\ fpc = "L57"
    /\ Raise("TokenPersistenceFailed")
    /\ UNCHANGED << now, fileVars, authVars, tokenVars, req, response, log,
                    paginateVars, expiredVars >>

(* save_tokens, line 58: json.dump writes the object; the file is closed *)
SaveWrite ==
    /\ fpc = "L58"
    /\ file' = Json(save_data(access_token, refresh_token, expires_at))
    /\ fileWriter' = "client"
    /\ log' = Append(log, [ev |-> "saved", file |-> file'])
    /\ fpc' = "none"
    /\ rpc' = AfterRefresh
    /\ outcome' = IF rpc = "save" THEN Returned(NoBody) ELSE outcome
    /\ UNCHANGED << now, authVars, tokenVars, req, response,
                    paginateVars, expiredVars >>

(* save_tokens, lines 58-60: a write raises OSError after the truncation *)
SaveWriteFails ==
    /\ fpc = "L58"
    /\ Raise("TokenPersistenceFailed")
    /\ UNCHANGED << now, fileVars, authVars, tokenVars, req, response, log,
                    paginateVars, expiredVars >>

(* save_tokens called on its own, lines 43-55 *)
SaveTokens ==
    /\ client = "ready"
    /\ rpc = "idle"
    /\ pgpc = "idle"
    /\ rpc' = "save"
    /\ fpc' = "L57"
    /\ log' = << [ev |-> "save_tokens", origin |-> origin, file |-> file] >>
    /\ UNCHANGED << now, fileVars, authVars, tokenVars, req, response, outcome,
                    paginateVars, expiredVars >>

(* request, lines 130-142: _make_request and what follows it *)
MakeRequest ==
    /\ rpc \in {"L130", "L135"}
    /\ fpc = "none"
    /\ \E r \in Responses(Bodies) :
          /\ response' = r
          /\ log' = Append(log, [ev |-> "http",
                                 bearer |-> bearer(access_token, req.access_token),
                                 url |-> req.url,
                                 params |-> req.params, status_code |-> r.status_code,
                                 body |-> r.body])
          /\ IF retry_on(rpc, r.status_code)
             THEN rpc' = "L134" /\ fpc' = "L67" /\ UNCHANGED outcome
             ELSE /\ rpc' = "done"
                  /\ fpc' = "none"
                  /\ outcome' = IF is_failure(r.status_code)
                                THEN [kind |-> "ApiRequestFailed", value |-> r]
                                ELSE Returned(r.body)
    /\ UNCHANGED << now, fileVars, authVars, tokenVars, req,
                    paginateVars, expiredVars >>

(* get_current_user_profile, line 148 *)
GetCurrentUserProfile ==
    /\ client = "ready"
    /\ rpc = "idle"
    /\ pgpc = "idle"
    /\ RequestEnter("GET", MeEndpoint, NoParams)
    /\ UNCHANGED << now, fileVars, authVars, tokenVars, paginateVars >>

(* the caller of get_current_user_profile, or of save_tokens, receives the  *)
(* value or the error                                                      *)
RequestReturn ==
    /\ rpc = "done"
    /\ pgpc = "idle"
    /\ ResetRequest
    /\ UNCHANGED << now, fileVars, authVars, tokenVars, paginateVars >>

----------------------------------------------------------------------------
(* SpotifyClient.paginate *)

Truthy(u) == u # NoUrl

(* str.replace("https://api.spotify.com", ""), line 204 *)
strip_base(u) == SelectSeq(u, LAMBDA c : c # "B")

(* lines 195-196 missing: a body without items counts as an empty page *)
paginate_body_unchecked(its, body) ==
    LET nxt == IF "next" \in DOMAIN body THEN body.next ELSE NoUrl IN
    [raised |-> FALSE,
     items |-> its \o (IF "items" \in DOMAIN body THEN body.items ELSE << >>),
     url |-> IF Truthy(nxt) THEN strip_base(nxt) ELSE nxt]

(* line 198 assigning instead of extending *)
paginate_body_overwrite(its, body) ==
    IF "items" \notin DOMAIN body
    THEN [raised |-> TRUE, items |-> its, url |-> NoUrl]
    ELSE LET nxt == IF "next" \in DOMAIN body THEN body.next ELSE NoUrl IN
         [raised |-> FALSE,
          items |-> body.items,
          url |-> IF Truthy(nxt) THEN strip_base(nxt) ELSE nxt]

(* paginate, lines 195-204: one pass of the loop body after request has    *)
(* returned `body`, on the accumulated items `its`.                        *)
paginate_body(its, body) ==
    IF "items" \notin DOMAIN body
    THEN [raised |-> TRUE, items |-> its, url |-> NoUrl]
    ELSE LET nxt == IF "next" \in DOMAIN body THEN body.next ELSE NoUrl IN
         [raised |-> FALSE,
          items |-> its \o body.items,
          url |-> IF Truthy(nxt) THEN strip_base(nxt) ELSE nxt]

(* line 193 wrapped in try/except that returns what has been collected *)
paginate_failure_partial(its, kind) == Returned(its)

(* paginate, lines 193 and 196: an exception leaves paginate at once; the  *)
(* items collected so far, `its`, stay behind in the dropped frame         *)
paginate_failure(its, kind) == Raised(kind)

PaginateEnd(result) == IF result.kind = "returned" THEN "returned" ELSE "raised"

(* no paginate call is running: its frame is gone *)
IdlePaginate ==
    /\ pgpc = "idle"
    /\ items = << >>
    /\ url = NoUrl
    /\ current_params = NoParams
    /\ served = << >>
    /\ pgOutcome = NoOutcome

(* paginate ends for its caller: the frame is dropped *)
ResetPaginate ==
    /\ pgpc' = "idle"
    /\ items' = << >>
    /\ url' = NoUrl
    /\ current_params' = NoParams
    /\ served' = << >>
    /\ pgOutcome' = NoOutcome

(* paginate, lines 188-193: locals, and the first request *)
PaginateCall ==
    /\ client = "ready"
    /\ rpc = "idle"
    /\ pgpc = "idle"
    /\ \E params \in {NoParams, "limit=50"} :
          /\ items' = << >>
          /\ url' = PlaylistsEndpoint
          /\ current_params' = params
          /\ RequestEnter("GET", PlaylistsEndpoint, params)
    /\ served' = << >>
    /\ pgOutcome' = NoOutcome
    /\ pgpc' = "L193"
    /\ UNCHANGED << now, fileVars, authVars, tokenVars >>

(* paginate, lines 193-206: request has ended; the rest of the loop body,  *)
(* the loop test, and the next request or the return.                      *)
PaginateResume ==
    /\ pgpc = "L193"
    /\ rpc = "done"
    /\ IF outcome.kind # "returned"
       THEN /\ pgOutcome' = paginate_failure(items, outcome.kind)
            /\ pgpc' = PaginateEnd(pgOutcome')
            /\ ResetRequest
            /\ UNCHANGED << items, url, current_params, served >>
       ELSE LET b == paginate_body(items, outcome.value) IN
            /\ served' = Append(served, outcome.value)
            /\ IF b.raised
               THEN /\ pgOutcome' = paginate_failure(items, "NotPaginated")
                    /\ pgpc' = PaginateEnd(pgOutcome')
                    /\ ResetRequest
                    /\ UNCHANGED << items, url, current_params >>
               ELSE /\ items' = b.items
                    /\ url' = b.url
                    /\ current_params' = NoParams
                    /\ IF Truthy(b.url)
                       THEN /\ RequestEnter("GET", b.url, NoParams)
                            /\ UNCHANGED << pgpc, pgOutcome >>
                       ELSE /\ pgpc' = "returned"
                            /\ pgOutcome' = Returned(b.items)
                            /\ ResetRequest
    /\ UNCHANGED << now, fileVars, authVars, tokenVars >>

(* the caller of paginate receives the items or the error *)
PaginateReturn ==
    /\ pgpc \in {"returned", "raised"}
    /\ ResetPaginate
    /\ UNCHANGED << now, fileVars, authVars, tokenVars, requestVars, expiredVars >>

----------------------------------------------------------------------------
(* The environment *)

Tick ==
    /\ now < MaxNow
    /\ now' = now + 1
    /\ UNCHANGED << fileVars, authVars, tokenVars, requestVars, paginateVars, expiredVars >>

(* the process that owns the client ends *)
ClientExit ==
    /\ client = "ready"
    /\ rpc = "idle"
    /\ pgpc = "idle"
    /\ client' = "none"
    /\ access_token' = None
    /\ refresh_token' = None
    /\ expires_at' = None
    /\ origin' = NoOrigin
    /\ UNCHANGED << now, fileVars, authVars, requestVars, paginateVars, expiredVars >>

(* the script is run again: the process that owned the client has ended    *)
(* and the new one constructs its client from the file                     *)
Reconstruct ==
    /\ client = "ready"
    /\ rpc = "idle"
    /\ pgpc = "idle"
    /\ LET r == load_tokens(file, now) IN
          /\ client' = r.result
          /\ IF r.result = "ready"
             THEN /\ access_token' = r.access_token
                  /\ refresh_token' = r.refresh_token
                  /\ expires_at' = r.expires_at
                  /\ origin' = Loaded(file, now)
             ELSE /\ access_token' = None
                  /\ refresh_token' = None
                  /\ expires_at' = None
                  /\ origin' = NoOrigin
    /\ UNCHANGED << now, fileVars, authVars, requestVars, paginateVars, expiredVars >>

----------------------------------------------------------------------------
(* Specifications *)

(* The token lifecycle: handshake, construction, single requests, time. *)
Init ==
    /\ now = 0
    /\ file \in InitialFiles
    /\ fileWriter = "external"
    /\ authOutcome = "none"
    /\ NoListener
    /\ client = "none"
    /\ access_token = None
    /\ refresh_token = None
    /\ expires_at = None
    /\ origin = NoOrigin
    /\ IdleRequest
    /\ IdlePaginate

Next ==
    \/ AuthListen
    \/ Inbound
    \/ AuthMain
    \/ AuthExit
    \/ Construct
    \/ GetCurrentUserProfile
    \/ RefreshPost
    \/ SaveTokens
    \/ SaveOpen
    \/ SaveOpenFails
    \/ SaveWrite
    \/ SaveWriteFails
    \/ MakeRequest
    \/ RequestReturn
    \/ ClientExit
    \/ Reconstruct
    \/ Tick

Spec == Init /\ [][Next]_vars

(* Pagination: a constructed client pages through a collection. *)
PaginateFiles ==
    {Json([access_token |-> 1, refresh_token |-> 1, expires_at |-> e]) : e \in {5, 12}}

InitPaginate ==
    /\ now = 0
    /\ file \in PaginateFiles
    /\ fileWriter = "external"
    /\ authOutcome = "none"
    /\ NoListener
    /\ LET r == load_tokens(file, now) IN
          /\ client = r.result
          /\ access_token = r.access_token
          /\ refresh_token = r.refresh_token
          /\ expires_at = r.expires_at
    /\ origin = Loaded(file, now)
    /\ IdleRequest
    /\ IdlePaginate

NextPaginate ==
    \/ PaginateCall
    \/ PaginateResume
    \/ PaginateReturn
    \/ RefreshPost
    \/ SaveOpen
    \/ SaveOpenFails
    \/ SaveWrite
    \/ SaveWriteFails
    \/ MakeRequest

SpecPaginate == InitPaginate /\ [][NextPaginate]_vars

(* The cursor round trip: paginate has received its first page, whose next *)
(* is an absolute URL: the base URL or another host first, and a path      *)
(* somewhere after it.                                                     *)
CursorStrings ==
    { c \in UNION { [1..n -> {"B", "H", "p"}] : n \in 2..MaxCursor } :
         /\ c[1] \in {"B", "H"}
         /\ \E i \in 2..Len(c) : c[i] = "p" }

FirstPages == { [items |-> ItemsOf(1, n), next |-> c] : n \in 0..MaxItems, c \in CursorStrings }

InitCursor ==
    /\ now = 0
    /\ file = Json([access_token |-> 1, refresh_token |-> 1, expires_at |-> 12])
    /\ fileWriter = "external"
    /\ authOutcome = "none"
    /\ NoListener
    /\ LET r == load_tokens(file, now) IN
          /\ client = r.result
          /\ access_token = r.access_token
          /\ refresh_token = r.refresh_token
          /\ expires_at = r.expires_at
    /\ origin = Loaded(file, now)
    /\ rpc = "done"
    /\ fpc = "none"
    /\ req = [method |-> "GET", endpoint |-> PlaylistsEndpoint, params |-> NoParams,
              url |-> BaseUrl \o PlaylistsEndpoint, at |-> now,
              access_token |-> access_token, expires_at |-> expires_at]
    /\ \E body \in FirstPages :
          /\ response = [status_code |-> 200, body |-> body]
          /\ outcome = Returned(body)
          /\ log = << [ev |-> "http", bearer |-> access_token, url |-> req.url,
                       params |-> req.params, status_code |-> 200, body |-> body] >>
    /\ buf = DefaultBuffer
    /\ expired = << [now |-> now, expires_at |-> expires_at,
                     buffer |-> DefaultBuffer, result |-> FALSE] >>
    /\ pgpc = "L193"
    /\ items = << >>
    /\ url = PlaylistsEndpoint
    /\ current_params = NoParams
    /\ served = << >>
    /\ pgOutcome = NoOutcome

NextCursor == PaginateResume

SpecCursor == InitCursor /\ [][NextCursor]_vars

(* is_token_expired alone: any clock, expiry instant and buffer. *)
InitExpired ==
    /\ now \in 0..MaxNow
    /\ expires_at \in 0..MaxExpiry
    /\ buf \in 0..MaxBuffer
    /\ expired = << >>
    /\ client = "ready"
    /\ access_token = 1
    /\ refresh_token = 1
    /\ file = Json(save_data(access_token, refresh_token, expires_at))
    /\ origin = Loaded(file, now)
    /\ fileWriter = "external"
    /\ authOutcome = "none"
    /\ NoListener
    /\ rpc = "idle"
    /\ fpc = "none"
    /\ req = NoRequest
    /\ response = NoResponse
    /\ outcome = NoOutcome
    /\ log = << >>
    /\ IdlePaginate

NextExpired ==
    \/ IsTokenExpired
    \/ Tick

SpecExpired == InitExpired /\ [][NextExpired]_vars

----------------------------------------------------------------------------
(* Reading the event log of a request call *)

Https == SelectSeq(log, LAMBDA e : e.ev = "http")
Grants == SelectSeq(log, LAMBDA e : e.ev = "granted")

(* index in the log of the first resource request, 0 when none was issued *)
FirstHttp ==
    IF Https = << >> THEN 0
    ELSE CHOOSE i \in 1..Len(log) :
            /\ log[i].ev = "http"
            /\ \A j \in 1..(i - 1) : log[j].ev # "http"

CountAfter(i, ev) == Cardinality({ j \in (i + 1)..Len(log) : log[j].ev = ev })

RefreshErrors == { "NoRefreshToken", "TokenExchangeFailed", "TokenPersistenceFailed" }

FirstWas401 == Https # << >> /\ Https[1].status_code = 401

----------------------------------------------------------------------------
(* C1 (as stated): when a request call has ended and its first resource    *)
(* request was answered 401, the call made exactly one refresh after it    *)
(* and exactly one retry; a 401 on the retry ends the call with the        *)
(* API-request-failed error.                                               *)
C1_AsStated ==
    (rpc = "done" /\ FirstWas401) =>
        /\ CountAfter(FirstHttp, "refresh") = 1
        /\ Len(Https) = 2
        /\ (Https[2].status_code = 401 => outcome.kind = "ApiRequestFailed")

(* C1 (amended): after a 401 on the first resource request the call makes  *)
(* exactly one refresh; if that refresh returns, exactly one retry follows *)
(* it and a 401 on the retry ends the call with the API-request-failed     *)
(* error, with no refresh and no request after the retry; if that refresh  *)
(* raises, the call ends with the refresh's error and no retry.  No call   *)
(* issues a third resource request.                                        *)
C1_RefreshThenOneRetry ==
    /\ Len(Https) <= 2
    /\ (rpc = "done" /\ FirstWas401) =>
          /\ CountAfter(FirstHttp, "refresh") = 1
          /\ log[FirstHttp + 1].ev = "refresh"
          /\ IF CountAfter(FirstHttp, "saved") = 1
             THEN /\ Len(Https) = 2
                  /\ Len(log) = FirstHttp + 4
                  /\ log[FirstHttp + 2].ev = "granted"
                  /\ log[FirstHttp + 3].ev = "saved"
                  /\ log[FirstHttp + 4].ev = "http"
                  /\ (Https[2].status_code = 401 => outcome.kind = "ApiRequestFailed")
             ELSE /\ Len(Https) = 1
                  /\ outcome.kind \in RefreshErrors

C1_Witness ==
    /\ rpc = "done"
    /\ Len(Https) = 2
    /\ Https[1].status_code = 401
    /\ Https[2].status_code = 401
    /\ outcome.kind = "ApiRequestFailed"
    /\ CountAfter(FirstHttp, "refresh") = 1

----------------------------------------------------------------------------
(* the call refreshed, and saved the refreshed TokenSet, before its first  *)
(* resource request                                                        *)
RefreshedAndSavedFirst ==
    /\ FirstHttp = 4
    /\ log[1].ev = "refresh"
    /\ log[2].ev = "granted"
    /\ log[3].ev = "saved"
    /\ log[3].file = Json(refreshed(log[2].prior.access_token, log[2].prior.refresh_token,
                                    log[2].prior.expires_at, log[2].tokens, log[2].at))

(* C2 (as stated): when a request call started with now + 10 >= expires_at,*)
(* a refresh and a save of the refreshed TokenSet have completed before    *)
(* its first resource request is issued.                                   *)
C2_AsStated ==
    (Https # << >> /\ req.at + DefaultBuffer >= req.expires_at) => RefreshedAndSavedFirst

(* C2 (amended): when a request call started with now + 10 > expires_at,   *)
(* a refresh and a save of the refreshed TokenSet have completed before    *)
(* its first resource request is issued; with now + 10 = expires_at the    *)
(* first resource request is issued with no refresh before it.             *)
C2_ProactiveRefreshBeforeRequest ==
    /\ (Https # << >> /\ req.at + DefaultBuffer > req.expires_at) => RefreshedAndSavedFirst
    /\ (Https # << >> /\ req.at + DefaultBuffer = req.expires_at) => FirstHttp = 1

C2_Witness ==
    /\ Len(Https) = 1
    /\ req.at + DefaultBuffer > req.expires_at
    /\ RefreshedAndSavedFirst
    /\ log[2].tokens.access_token # log[2].prior.access_token

----------------------------------------------------------------------------
(* C3 (as stated): is_token_expired(buffer) returns true exactly when      *)
(* now + buffer >= expires_at.                                             *)
C3_AsStated ==
    \A i \in 1..Len(expired) :
        expired[i].result <=> (expired[i].now + expired[i].buffer >= expired[i].expires_at)

(* C3 (amended): is_token_expired(buffer) returns true exactly when        *)
(* now + buffer > expires_at.                                              *)
C3_ExpiredIffStrictlyPast ==
    \A i \in 1..Len(expired) :
        expired[i].result <=> (expired[i].now + expired[i].buffer > expired[i].expires_at)

C3_Witness ==
    /\ expired # << >>
    /\ expired[1].buffer > 0
    /\ expired[1].now + expired[1].buffer = expired[1].expires_at
    /\ expired[1].result = FALSE

----------------------------------------------------------------------------
(* C4: at now = expires_at - buffer is_token_expired returns false, and at *)
(* now = expires_at - buffer + 1 it returns true.                          *)
C4_Boundary ==
    \A i \in 1..Len(expired) :
        /\ expired[i].now = expired[i].expires_at - expired[i].buffer
              => expired[i].result = FALSE
        /\ expired[i].now = expired[i].expires_at - expired[i].buffer + 1
              => expired[i].result = TRUE

C4_Witness ==
    /\ expired # << >>
    /\ expired[1].buffer > 0
    /\ expired[1].now = expired[1].expires_at - expired[1].buffer + 1
    /\ expired[1].result = TRUE

----------------------------------------------------------------------------
(* Reading what paginate has received *)

RECURSIVE ConcatItems(_)
ConcatItems(pages) ==
    IF pages = << >> THEN << >>
    ELSE ConcatItems(SubSeq(pages, 1, Len(pages) - 1)) \o pages[Len(pages)].items

HasNext(page) == "next" \in DOMAIN page /\ page.next # NoUrl

(* every page has items and only the last one has a null or absent next *)
WellFormedChain(pages) ==
    /\ pages # << >>
    /\ \A i \in 1..Len(pages) :
          /\ "items" \in DOMAIN pages[i]
          /\ HasNext(pages[i]) <=> i < Len(pages)

(* C5: when paginate returns, the pages it received form a chain in which  *)
(* every page has items and only the last has a null or absent next, and   *)
(* the value returned is the concatenation of the pages' items in page     *)
(* order, each page's items in their order.                                *)
C5_ReturnsConcatenation ==
    /\ pgpc = "returned" =>
          /\ WellFormedChain(served)
          /\ pgOutcome = Returned(ConcatItems(served))
    /\ (pgpc = "L193" /\ served # << >>) =>
          /\ \A i \in 1..Len(served) : "items" \in DOMAIN served[i] /\ HasNext(served[i])
          /\ items = ConcatItems(served)

C5_Witness ==
    /\ pgpc = "returned"
    /\ Len(served) = 3
    /\ Len(served[1].items) = 2
    /\ Len(served[2].items) = 2
    /\ Len(served[3].items) = 1
    /\ "next" \in DOMAIN served[3]
    /\ pgOutcome.value = << <<1, 1>>, <<1, 2>>, <<2, 1>>, <<2, 2>>, <<3, 1>> >>

----------------------------------------------------------------------------
(* C6: a page without items is the last page paginate receives: paginate   *)
(* has then failed with the not-paginated error and no request is running  *)
(* or was issued after it, whether or not the page carries a next cursor.  *)
C6_NotPaginatedStops ==
    \A i \in 1..Len(served) :
        "items" \notin DOMAIN served[i] =>
            /\ i = Len(served)
            /\ pgpc = "raised"
            /\ pgOutcome = Raised("NotPaginated")
            /\ rpc = "idle"
            /\ log = << >>

C6_Witness ==
    /\ pgpc = "raised"
    /\ pgOutcome.kind = "NotPaginated"
    /\ Len(served) = 2
    /\ "items" \notin DOMAIN served[2]
    /\ HasNext(served[2])
    /\ rpc = "idle"

----------------------------------------------------------------------------
LastGrant == Grants[Len(Grants)]

(* the event that led into the save_tokens now running or last run: the    *)
(* grant of the refresh that called it, or the lone call                   *)
SaveStart == IF Grants # << >> THEN LastGrant ELSE log[1]

(* the last refresh of the running call has been granted and saved *)
LastRefreshSaved ==
    /\ Grants # << >>
    /\ \E i \in 1..Len(log) :
          /\ log[i].ev = "saved"
          /\ \A j \in (i + 1)..Len(log) : log[j].ev \notin {"granted", "saved"}

(* C7: after a grant, access_token is the response's access_token,         *)
(* expires_at is the time of the grant plus the response's expires_in, and *)
(* refresh_token is the response's refresh_token when it has one and the   *)
(* value from before the refresh when it has none.                         *)
C7_RefreshKeepsRefreshToken ==
    Grants # << >> =>
        /\ access_token = LastGrant.tokens.access_token
        /\ expires_at = LastGrant.at + LastGrant.tokens.expires_in
        /\ refresh_token = IF "refresh_token" \in DOMAIN LastGrant.tokens
                           THEN LastGrant.tokens.refresh_token
                           ELSE LastGrant.prior.refresh_token

C7_Witness ==
    /\ LastRefreshSaved
    /\ "refresh_token" \notin DOMAIN LastGrant.tokens
    /\ refresh_token = 1
    /\ LastGrant.prior.refresh_token = 1
    /\ access_token = 2
    /\ LastGrant.prior.access_token = 1
    /\ expires_at # LastGrant.prior.expires_at

----------------------------------------------------------------------------
(* C8: a token file written by the program holds the expiry under          *)
(* expires_at and holds no expires_in.                                     *)
C8_StoredExpiryIsAbsolute ==
    (file.kind = "json" /\ fileWriter \in {"auth", "client"}) =>
        /\ "expires_at" \in DOMAIN file.data
        /\ "expires_in" \notin DOMAIN file.data

----------------------------------------------------------------------------
(* C9: when save_tokens has been interrupted after it started writing, the *)
(* token file holds what it held before the save.                          *)
C9_InterruptedSaveKeepsFile ==
    (rpc = "done" /\ outcome.kind = "TokenPersistenceFailed") =>
        file = SaveStart.file

----------------------------------------------------------------------------
FileIsMemory == file = Json(save_data(access_token, refresh_token, expires_at))

(* C10: whenever a client exists and neither refresh_access_token nor      *)
(* save_tokens is under way, the token file holds exactly the in-memory    *)
(* TokenSet.                                                               *)
C10_FileIsMemory ==
    (client = "ready" /\ fpc = "none") => FileIsMemory

----------------------------------------------------------------------------
(* the fields came from a file holding expires_in and no expires_at *)
LegacyLoad(o) ==
    /\ o.kind = "load"
    /\ o.file.kind = "json"
    /\ "expires_at" \notin DOMAIN o.file.data

(* save_tokens has just written the file *)
SaveDone == log # << >> /\ log[Len(log)].ev = "saved"

(* C11 (as stated): a load of a file with expires_in and no expires_at     *)
(* sets expires_at to the time of loading plus expires_in, and the first   *)
(* save_tokens after that load writes that value under expires_at, with no *)
(* expires_in key.                                                         *)
C11_AsStated ==
    /\ (client = "ready" /\ LegacyLoad(origin)) =>
          expires_at = origin.at + origin.file.data.expires_in
    /\ (SaveDone /\ LegacyLoad(SaveStart.origin) /\ SaveStart.file = SaveStart.origin.file) =>
          /\ file.kind = "json"
          /\ DOMAIN file.data = {"access_token", "refresh_token", "expires_at"}
          /\ file.data.expires_at = SaveStart.origin.at + SaveStart.origin.file.data.expires_in

(* C11 (amended): a load of a file with expires_in and no expires_at sets  *)
(* expires_at to the time of loading plus expires_in.  Every save_tokens   *)
(* writes exactly the keys access_token, refresh_token and expires_at,     *)
(* with expires_at as it is in memory when the save runs: that is the      *)
(* value of the load when save_tokens is called before any refresh, and    *)
(* the time of the grant plus the granted expires_in when the save is the  *)
(* one refresh_access_token makes.                                         *)
C11_LegacyLoadThenSave ==
    /\ (client = "ready" /\ LegacyLoad(origin)) =>
          expires_at = origin.at + origin.file.data.expires_in
    /\ SaveDone =>
          /\ file.kind = "json"
          /\ DOMAIN file.data = {"access_token", "refresh_token", "expires_at"}
          /\ file.data.expires_at = expires_at
          /\ (SaveStart.ev = "save_tokens" /\ LegacyLoad(origin)) =>
                file.data.expires_at = origin.at + origin.file.data.expires_in
          /\ SaveStart.ev = "granted" =>
                file.data.expires_at = SaveStart.at + SaveStart.tokens.expires_in

C11_Witness ==
    /\ SaveDone
    /\ SaveStart.ev = "save_tokens"
    /\ LegacyLoad(origin)
    /\ SaveStart.file = origin.file
    /\ origin.at = 1
    /\ origin.file.data.expires_in = 11
    /\ now = 2
    /\ file.data = [access_token |-> 1, refresh_token |-> 1, expires_at |-> 12]

----------------------------------------------------------------------------
(* the file is JSON that lacks access_token, lacks refresh_token, or lacks *)
(* both expires_at and expires_in                                          *)
LacksKey(f) ==
    /\ f.kind = "json"
    /\ \/ "access_token" \notin DOMAIN f.data
       \/ "refresh_token" \notin DOMAIN f.data
       \/ {"expires_at", "expires_in"} \cap DOMAIN f.data = {}

(* C12: a constructor that runs on an absent file fails with the           *)
(* tokens-not-found error, and one that runs on a file lacking             *)
(* access_token, refresh_token, or both expires_at and expires_in fails    *)
(* with the malformed-token-file error, and in no other case with either;  *)
(* after such a failure there is no client, no field is loaded, and the    *)
(* token file is as it was.                                                *)
C12_ConstructFailures ==
    [][ (client' # client /\ client' # "none") =>
          /\ (file.kind = "absent") <=> (client' = "TokensNotFound")
          /\ LacksKey(file) <=> (client' = "MalformedTokenFile")
          /\ client' \in {"TokensNotFound", "MalformedTokenFile"} =>
                /\ file' = file
                /\ fileWriter' = fileWriter
                /\ access_token' = None
                /\ refresh_token' = None
                /\ expires_at' = None
                /\ origin' = NoOrigin
      ]_vars

C12_Witness ==
    /\ client = "MalformedTokenFile"
    /\ file = Json([access_token |-> 1, expires_at |-> 12])
    /\ fileWriter = "external"
    /\ access_token = None
    /\ refresh_token = None
    /\ expires_at = None
    /\ now = 1

----------------------------------------------------------------------------
(* the call has ended and has a final response: its first response when    *)
(* that was not a 401, the retry's response otherwise                      *)
HasFinalResponse ==
    /\ rpc = "done"
    /\ Https # << >>
    /\ (Https[1].status_code = 401 => Len(Https) = 2)

(* C13: a request call whose final response has status >= 400 ends with    *)
(* the API-request-failed error, and one whose final response has status   *)
(* below 400 returns the body of that response; the final response is the  *)
(* last one the call received, and no resource request follows it.         *)
C13_FinalResponseDecides ==
    HasFinalResponse =>
        LET final == Https[Len(Https)] IN
        /\ Len(Https) = IF Https[1].status_code = 401 THEN 2 ELSE 1
        /\ log[Len(log)] = final
        /\ final.status_code >= 400 => outcome.kind = "ApiRequestFailed"
        /\ final.status_code < 400 => outcome = Returned(final.body)

C13_Witness ==
    /\ HasFinalResponse
    /\ Len(Https) = 2
    /\ Https[1].status_code = 401
    /\ Https[2].status_code = 200
    /\ outcome = Returned([id |-> 2])

----------------------------------------------------------------------------
(* C14: a refresh whose token-endpoint response holds an error field ends  *)
(* the call with the token-exchange error; access_token, refresh_token,    *)
(* expires_at and the token file are then as they were before the refresh, *)
(* and nothing follows the refused refresh in the call: no resource        *)
(* request, no save.                                                       *)
C14_RefusedRefreshChangesNothing ==
    /\ \A i \in 1..Len(log) :
          log[i].ev = "refused" =>
             /\ "error" \in DOMAIN log[i].tokens
             /\ i = Len(log)
             /\ rpc = "done"
             /\ fpc = "none"
             /\ outcome = Raised("TokenExchangeFailed")
             /\ save_data(access_token, refresh_token, expires_at) = log[i].prior
             /\ file = log[i].file
    /\ (rpc = "done" /\ outcome.kind = "TokenExchangeFailed") =>
          log[Len(log)].ev = "refused"

C14_Witness ==
    /\ rpc = "done"
    /\ outcome.kind = "TokenExchangeFailed"
    /\ Len(Https) = 1
    /\ Https[1].status_code = 401
    /\ log[Len(log)].ev = "refused"
    /\ Len(Grants) = 1
    /\ access_token = 2
    /\ file = Json(save_data(access_token, refresh_token, expires_at))

----------------------------------------------------------------------------
HasCode(qs) == "code" \in DOMAIN qs

(* the handshake got past retrieve_authentication_code with a code *)
CodeReturned == authOutcome \in {"TokenExchangeFailed", "KeyError", "stored"}

(* C15 (as stated): the wait ends with a returned code only after a        *)
(* request carrying a code has been handled, and that code is the one      *)
(* returned; it ends with the missing-authorization-code error only if no  *)
(* request that reached the port carries a code; no request is handled     *)
(* after the one that carried the code.                                    *)
C15_AsStated ==
    /\ CodeReturned =>
          /\ HasCode(handled[Len(handled)])
          /\ auth_code = handled[Len(handled)].code[1]
          /\ \A i \in 1..(Len(handled) - 1) : ~HasCode(handled[i])
    /\ authOutcome = "MissingAuthorizationCode" =>
          /\ \A i \in 1..Len(handled) : ~HasCode(handled[i])
          /\ \A i \in 1..Len(inbox) : ~HasCode(inbox[i])

(* C15 (amended): retrieve_authentication_code blocks until one request    *)
(* of any kind has reached the callback port and handles exactly that      *)
(* request.  If it carries a code, the first value of the parameter is     *)
(* returned; if it carries none, the operation fails with the              *)
(* missing-authorization-code error, whether or not a request carrying a   *)
(* code is waiting behind it.  No second request is ever handled.          *)
C15_HandlesOneRequest ==
    /\ Len(handled) <= 1
    /\ authOutcome \in {"none", "listening"} <=> handled = << >>
    /\ handled # << >> =>
          IF HasCode(handled[1])
          THEN CodeReturned /\ auth_code = handled[1].code[1]
          ELSE authOutcome = "MissingAuthorizationCode" /\ auth_code = None

C15_Witness ==
    /\ CodeReturned
    /\ handled = << [code |-> << 2, 1 >>] >>
    /\ auth_code = 2
    /\ inbox = << [code |-> << 1 >>] >>

----------------------------------------------------------------------------
(* the page request that has just ended failed: request raised, or the     *)
(* page lacks items                                                        *)
PageFailed ==
    /\ pgpc = "L193"
    /\ rpc = "done"
    /\ (outcome.kind # "returned" \/ "items" \notin DOMAIN outcome.value)

(* C16: when a page request of paginate has failed, paginate's next step   *)
(* raises that failure (the request's error, or the not-paginated error)   *)
(* and hands no items to its caller, whatever it had accumulated; and a    *)
(* paginate that has raised has delivered no items.                        *)
C16_FailureDeliversNothing ==
    [][ /\ PageFailed =>
             /\ pgpc' = "raised"
             /\ pgOutcome' = Raised(IF outcome.kind # "returned" THEN outcome.kind
                                                                ELSE "NotPaginated")
             /\ rpc' = "idle"
        /\ pgpc' = "raised" => (pgOutcome'.kind # "returned" /\ pgOutcome'.value = NoBody)
        /\ (pgpc = "L193" /\ pgpc' = "returned") => ~PageFailed
      ]_vars

C16_Witness ==
    /\ pgpc = "raised"
    /\ pgOutcome = Raised("ApiRequestFailed")
    /\ Len(served) = 2
    /\ items = << <<1, 1>>, <<1, 2>>, <<2, 1>> >>
    /\ rpc = "idle"

----------------------------------------------------------------------------
(* refresh_access_token has just been granted new tokens *)
GrantStep == fpc = "L67" /\ fpc' = "L57"

NeedsRefresh(e, t) == is_token_expired(e, t, DefaultBuffer)

(* C17: from one client to the same or the next client, a token that       *)
(* needed refresh (not now + 10 <= expires_at) is Valid afterwards only    *)
(* when the step is a granted refresh, and access_token, refresh_token and *)
(* expires_at differ afterwards only when the step is a granted refresh;   *)
(* a construction that loads the file is no exception.                     *)
C17_ValidOnlyByRefresh ==
    [][ (client = "ready" /\ client' = "ready") =>
          /\ (NeedsRefresh(expires_at, now) /\ ~NeedsRefresh(expires_at', now')) => GrantStep
          /\ << access_token, refresh_token, expires_at >>'
                 # << access_token, refresh_token, expires_at >> => GrantStep
      ]_vars

----------------------------------------------------------------------------
(* C18: paginate issues its first request call with the caller's endpoint  *)
(* and params, and each later one for the previous page's next cursor with *)
(* params None; when it returns, every page but the last carried a next    *)
(* cursor and the last carried none, so that a chain of n pages took       *)
(* exactly n request calls.                                                *)
C18_OneCallPerPage ==
    /\ (pgpc = "L193" /\ served = << >>) =>
          /\ req.endpoint = PlaylistsEndpoint
          /\ req.params = current_params
    /\ (pgpc = "L193" /\ served # << >>) =>
          /\ req.url = served[Len(served)].next
          /\ req.params = NoParams
    /\ pgpc = "returned" =>
          /\ served # << >>
          /\ \A i \in 1..Len(served) : HasNext(served[i]) <=> i < Len(served)

----------------------------------------------------------------------------
(* C20: when the page paginate received last carries a next cursor, a      *)
(* request for the following page is under way and its URL is that cursor: *)
(* the base URL prepended to the endpoint paginate passed gives back the   *)
(* cursor, whatever its host and however often it holds the base URL.      *)
C20_CursorRoundTrips ==
    (served # << >> /\ HasNext(served[Len(served)])) =>
        /\ pgpc = "L193"
        /\ BaseUrl \o req.endpoint = served[Len(served)].next
        /\ req.url = served[Len(served)].next

----------------------------------------------------------------------------
(* the access token in force when event i of the call was logged: the one  *)
(* of the last grant before it, or the one the call started with           *)
TokenAt(i) ==
    LET gs == { j \in 1..(i - 1) : log[j].ev = "granted" } IN
    IF gs = {} THEN req.access_token
    ELSE log[CHOOSE j \in gs : \A k \in gs : k <= j].tokens.access_token

CountOf(ev) == Cardinality({ j \in 1..Len(log) : log[j].ev = ev })

(* C19: every resource request of a request call carries the access token *)
(* in force when it is issued; the retry after a 401 carries the token     *)
(* granted by the refresh that followed the 401; a call issues at most 2   *)
(* resource requests and at most 2 refreshes, at most one before the first *)
(* resource request and at most one after it.                              *)
C19_BearerIsCurrentToken ==
    /\ \A i \in 1..Len(log) : log[i].ev = "http" => log[i].bearer = TokenAt(i)
    /\ Len(Https) <= 2
    /\ CountOf("refresh") <= 2
    /\ Https # << >> =>
          /\ CountOf("refresh") - CountAfter(FirstHttp, "refresh") <= 1
          /\ CountAfter(FirstHttp, "refresh") <= 1
    /\ Len(Https) = 2 =>
          /\ Https[1].status_code = 401
          /\ log[Len(log) - 2].ev = "granted"
          /\ Len(log) - 2 > FirstHttp
          /\ Https[2].bearer = log[Len(log) - 2].tokens.access_token
    /\ req # NoRequest => access_token = TokenAt(Len(log) + 1)

C19_Witness ==
    /\ rpc = "done"
    /\ Len(Https) = 2
    /\ Https[1].bearer = 1
    /\ Https[2].bearer = 2
    /\ access_token = 2
    /\ CountOf("refresh") = 1

====
